---- MODULE Spec2Model ----
(***************************************************************************)
(* Model of glue/core/util.py: the selector codec (split_component_view,  *)
(* join_component_view), the linear branch of facet_subsets, disambiguate *)
(* and row_lookup.  Each library function is an operation that a caller   *)
(* may invoke with arguments drawn from small sets; facet_subsets and     *)
(* disambiguate run as several steps because they call an external        *)
(* factory / iterate an unbounded counter.                                *)
(***************************************************************************)
EXTENDS Integers, Sequences, FiniteSets, TLC

VARIABLES pc, fn, args, locals, ret, data_collection

vars == <<pc, fn, args, locals, ret, data_collection>>

(* ------------------------------ bounds -------------------------------- *)
MaxView == 3
MaxSteps == 3
MaxData == 2
MaxLen == 3
MaxCount == 5

(* ------------------------- Python values ------------------------------ *)
PyNone == [kind |-> "none", v |-> "", items |-> <<>>]
Atom(a) == [kind |-> "atom", v |-> a, items |-> <<>>]
PyTuple(s) == [kind |-> "tuple", v |-> "", items |-> s]
PyList(s) == [kind |-> "list", v |-> "", items |-> s]

Atoms == {Atom("x"), Atom("y")}
SeqsUpTo(S, n) == UNION {[1..m -> S] : m \in 0..n}
Identifiers == Atoms
Views == {PyNone} \cup Atoms
           \cup {PyTuple(s) : s \in SeqsUpTo(Atoms, MaxView)}
           \cup {PyList(s) : s \in SeqsUpTo(Atoms, MaxView)}
Selectors == Views

NoLocals == [none |-> TRUE]
NoCollection == [datasets |-> <<>>, groups |-> <<>>]
Ok(val) == [status |-> "ok", value |-> val]
Raise(exc) == [status |-> exc, value |-> <<>>]

(* --------------------------- View Codec ------------------------------- *)
(* variant: the length-2 case is not unwrapped *)
split_component_view_slice(arg) ==
    IF arg.kind = "tuple"
    THEN IF Len(arg.items) = 1 THEN Raise("TypeError")
         ELSE IF Len(arg.items) = 0 THEN Raise("IndexError")
         ELSE Ok(<<arg.items[1], PyTuple(Tail(arg.items))>>)
    ELSE Ok(<<arg, PyNone>>)

(* variant: the length-1 check is missing *)
split_component_view_unchecked(arg) ==
    IF arg.kind = "tuple"
    THEN IF Len(arg.items) = 2 THEN Ok(<<arg.items[1], arg.items[2]>>)
         ELSE IF Len(arg.items) = 0 THEN Raise("IndexError")
         ELSE Ok(<<arg.items[1], PyTuple(Tail(arg.items))>>)
    ELSE Ok(<<arg, PyNone>>)

split_component_view(arg) ==
    IF arg.kind = "tuple"
    THEN IF Len(arg.items) = 1 THEN Raise("TypeError")
         ELSE IF Len(arg.items) = 2 THEN Ok(<<arg.items[1], arg.items[2]>>)
         ELSE IF Len(arg.items) = 0 THEN Raise("IndexError")
         ELSE Ok(<<arg.items[1], PyTuple(Tail(arg.items))>>)
    ELSE Ok(<<arg, PyNone>>)

Iterable(view) == view.kind \in {"tuple", "list"}

join_component_view(component, view) ==
    IF view = PyNone THEN component
    ELSE IF Iterable(view) THEN PyTuple(<<component>> \o view.items)
    ELSE PyTuple(<<component, view>>)

Split ==
    /\ pc = "call"
    /\ fn = "split_component_view"
    /\ pc' = "done"
    /\ ret' = split_component_view(args[1])
    /\ UNCHANGED <<fn, args, locals, data_collection>>

Join ==
    /\ pc = "call"
    /\ fn = "join_component_view"
    /\ pc' = "done"
    /\ ret' = Ok(join_component_view(args[1], args[2]))
    /\ UNCHANGED <<fn, args, locals, data_collection>>

(* the caller feeds the joined selector back to split_component_view *)
SplitJoined ==
    /\ pc = "done"
    /\ fn = "join_component_view"
    /\ fn' = "split_of_join"
    /\ ret' = split_component_view(ret.value)
    /\ UNCHANGED <<pc, args, locals, data_collection>>

(* ----------------------- Range Faceting Engine ------------------------ *)
(* None is <<>>, a number n is <<n>>; the same encoding serves NaN cells   *)
(* of a dataset's array (NaN is <<>>).                                     *)
None == <<>>
NaN == <<>>
Some(n) == <<n>>

LoHi == {-2, 0, 10}
DataNumbers == {-1, 7}
Prefixes == {"", "m"}
cid == "x"

(* A dataset either lacks the attribute (data[cid] raises                 *)
(* IncompatibleAttribute) or holds an array with at least one number.     *)
Arrays == {nums \cup nans : nums \in (SUBSET {Some(n) : n \in DataNumbers}) \ {{}},
                            nans \in {{}, {NaN}}}
Datasets == {[has |-> FALSE, vals |-> {}]} \cup {[has |-> TRUE, vals |-> a] : a \in Arrays}
OldGroup == [label |-> "old", subset_state |-> <<>>]

Numbers(vals) == {c[1] : c \in {d \in vals : d # NaN}}
nanmin(vals) == CHOOSE m \in Numbers(vals) : \A n \in Numbers(vals) : m <= n
nanmax(vals) == CHOOSE m \in Numbers(vals) : \A n \in Numbers(vals) : m >= n

(* variant: the scan does not stop at the first dataset that has the attribute *)
RECURSIVE FirstVals_nobreak(_)
FirstVals_nobreak(datasets) ==
    IF datasets = <<>> THEN [found |-> FALSE, vals |-> {}]
    ELSE LET rest == FirstVals_nobreak(Tail(datasets))
         IN  IF rest.found THEN rest
             ELSE IF Head(datasets).has THEN [found |-> TRUE, vals |-> Head(datasets).vals]
             ELSE rest

(* for data in data_collection: try vals = data[cid]; break *)
RECURSIVE FirstVals(_)
FirstVals(datasets) ==
    IF datasets = <<>> THEN [found |-> FALSE, vals |-> {}]
    ELSE IF Head(datasets).has THEN [found |-> TRUE, vals |-> Head(datasets).vals]
    ELSE FirstVals(Tail(datasets))

(* Exact rationals n/d with d > 0 stand for the floats of np.linspace. *)
Frac(n, d) == [n |-> n, d |-> d]
Lt(a, b) == a.n * b.d < b.n * a.d
Le(a, b) == a.n * b.d <= b.n * a.d
Gt(a, b) == Lt(b, a)
Ge(a, b) == Le(b, a)

(* np.linspace(lo, hi, steps + 1): element i (0-based) is lo + i*(hi-lo)/steps *)
linspace(lo, hi, num) ==
    LET div == IF num - 1 > 0 THEN num - 1 ELSE 1
    IN  [j \in 1..num |-> Frac(lo * div + (j - 1) * (hi - lo), div)]

(* cid <op> value, and the conjunction of two such states *)
Ineq(att, op, val) == [att |-> att, op |-> op, val |-> val]
And(l, r) == [left |-> l, right |-> r]
HoldsIneq(s, v) ==
    CASE s.op = "<=" -> Le(v, s.val)
      [] s.op = "<"  -> Lt(v, s.val)
      [] s.op = ">=" -> Ge(v, s.val)
      [] s.op = ">"  -> Gt(v, s.val)
Holds(state, v) == HoldsIneq(state.left, v) /\ HoldsIneq(state.right, v)

(* '{0}'.format of a float edge: an integral value prints as "5.0" *)
Fmt(e) ==
    IF e.n % e.d = 0 THEN ToString(e.n \div e.d) \o ".0"
    ELSE ToString(e.n) \o "/" \o ToString(e.d)

(* variant: the upper edge of an ascending bin is inclusive *)
BinState_closed(rng, i, reverse) ==
    IF reverse THEN And(Ineq(cid, "<=", rng[i]), Ineq(cid, ">", rng[i + 1]))
    ELSE And(Ineq(cid, ">=", rng[i]), Ineq(cid, "<=", rng[i + 1]))

(* variant: a descending range keeps the ascending comparison pattern *)
BinState_mirrored(rng, i, reverse) ==
    IF reverse THEN And(Ineq(cid, "<", rng[i]), Ineq(cid, ">=", rng[i + 1]))
    ELSE And(Ineq(cid, ">=", rng[i]), Ineq(cid, "<", rng[i + 1]))

BinState(rng, i, reverse) ==
    IF reverse THEN And(Ineq(cid, "<=", rng[i]), Ineq(cid, ">", rng[i + 1]))
    ELSE And(Ineq(cid, ">=", rng[i]), Ineq(cid, "<", rng[i + 1]))

BinLabel(rng, i, reverse, prefix) ==
    IF reverse THEN prefix \o Fmt(rng[i + 1]) \o "<" \o cid \o "<=" \o Fmt(rng[i])
    ELSE prefix \o Fmt(rng[i]) \o "<=" \o cid \o "<" \o Fmt(rng[i + 1])

InferLo(lo, vals) == IF lo = None THEN nanmin(vals) ELSE lo[1]
InferHi(hi, vals) == IF hi = None THEN nanmax(vals) ELSE hi[1]

(* variant: an exhausted scan falls back to the range 0..1 instead of raising *)
FacetBuild_default(a) ==
    LET scan == FirstVals(a.datasets)
        vals == IF scan.found THEN scan.vals ELSE {Some(0), Some(1)}
        lo == InferLo(a.lo, vals)
        hi == InferHi(a.hi, vals)
        reverse == lo > hi
        rng == linspace(lo, hi, a.steps + 1)
    IN  [raised |-> FALSE, lo |-> lo, hi |-> hi, reverse |-> reverse,
         rng |-> rng,
         states |-> [i \in 1..a.steps |-> BinState(rng, i, reverse)],
         labels |-> [i \in 1..a.steps |-> BinLabel(rng, i, reverse, a.prefix)],
         result |-> <<>>, calls |-> 0]

(* facet_subsets up to the end of the loop that builds states and labels *)
FacetBuild(a) ==
    LET need == a.lo = None \/ a.hi = None
        scan == FirstVals(a.datasets)
    IN  IF need /\ ~scan.found THEN [raised |-> TRUE]
        ELSE LET lo == InferLo(a.lo, scan.vals)
                 hi == InferHi(a.hi, scan.vals)
                 reverse == lo > hi
                 rng == linspace(lo, hi, a.steps + 1)
             IN  [raised |-> FALSE, lo |-> lo, hi |-> hi, reverse |-> reverse,
                  rng |-> rng,
                  states |-> [i \in 1..a.steps |-> BinState(rng, i, reverse)],
                  labels |-> [i \in 1..a.steps |-> BinLabel(rng, i, reverse, a.prefix)],
                  result |-> <<>>, calls |-> 0]

FacetArgs ==
    [datasets : SeqsUpTo(Datasets, MaxData),
     lo : {None} \cup {Some(n) : n \in LoHi},
     hi : {None} \cup {Some(n) : n \in LoHi},
     steps : 0..MaxSteps, prefix : Prefixes,
     groups : {<<>>, <<OldGroup>>}]

FacetCall ==
    /\ pc = "call"
    /\ fn = "facet_subsets"
    /\ LET b == FacetBuild(args)
       IN  IF b.raised
           THEN /\ pc' = "done"
                /\ locals' = [calls |-> 0]
                /\ ret' = Raise("ValueError")
           ELSE /\ pc' = "register"
                /\ locals' = b
                /\ ret' = Raise("running")
    /\ UNCHANGED <<fn, args, data_collection>>

(* one iteration of "for lbl, s in zip(labels, states)": the factory returns *)
NewSubsetGroup ==
    /\ pc = "register"
    /\ Len(locals.result) < Len(locals.labels)
    /\ LET k == Len(locals.result) + 1
           sg == [label |-> locals.labels[k], subset_state |-> locals.states[k]]
       IN  /\ data_collection' = [data_collection EXCEPT !.groups = Append(@, sg)]
           /\ locals' = [locals EXCEPT !.result = Append(@, sg), !.calls = @ + 1]
    /\ UNCHANGED <<pc, fn, args, ret>>

(* variant: a failing factory call removes the groups created so far *)
NewSubsetGroupFails_rollback ==
    /\ pc = "register"
    /\ Len(locals.result) < Len(locals.labels)
    /\ locals' = [locals EXCEPT !.calls = @ + 1]
    /\ data_collection' = [data_collection EXCEPT !.groups = args.groups]
    /\ pc' = "done"
    /\ ret' = Raise("FactoryError")
    /\ UNCHANGED <<fn, args>>

(* the factory raises: the exception leaves facet_subsets *)
NewSubsetGroupFails ==
    /\ pc = "register"
    /\ Len(locals.result) < Len(locals.labels)
    /\ locals' = [locals EXCEPT !.calls = @ + 1]
    /\ pc' = "done"
    /\ ret' = Raise("FactoryError")
    /\ UNCHANGED <<fn, args, data_collection>>

FacetReturn ==
    /\ pc = "register"
    /\ Len(locals.result) = Len(locals.labels)
    /\ pc' = "done"
    /\ ret' = Ok(locals.result)
    /\ UNCHANGED <<fn, args, locals, data_collection>>

(* ------------------------- Label Disambiguator ------------------------ *)
Labels == {"a", "b", "a_01"}
TakenNames == {"a", "b", "a_01", "a_02", "a_03", "a_1", "b_01"}

(* variant: "_%i" % i, no zero padding *)
Suffix_unpadded(i) == "_" \o ToString(i)

(* "_%2.2i" % i : at least two digits, zero padded *)
Suffix(i) == IF i < 10 THEN "_0" \o ToString(i) ELSE "_" \o ToString(i)

Candidate(label, i) == label \o Suffix(i)

DisambiguateCall ==
    /\ pc = "call"
    /\ fn = "disambiguate"
    /\ IF args.label \notin args.taken
       THEN /\ pc' = "done"
            /\ ret' = Ok(args.label)
            /\ UNCHANGED locals
       ELSE /\ pc' = "count"
            /\ locals' = [label |-> args.label, i |-> 1]
            /\ UNCHANGED ret
    /\ UNCHANGED <<fn, args, data_collection>>

(* one iteration of "for i in count(1)" *)
DisambiguateTry ==
    /\ pc = "count"
    /\ locals.i <= MaxCount
    /\ LET candidate == Candidate(locals.label, locals.i)
       IN  IF candidate \notin args.taken
           THEN /\ pc' = "done"
                /\ ret' = Ok(candidate)
                /\ UNCHANGED locals
           ELSE /\ locals' = [locals EXCEPT !.i = @ + 1]
                /\ UNCHANGED <<pc, ret>>
    /\ UNCHANGED <<fn, args, data_collection>>

(* ----------------------- Categorical Row Matcher ---------------------- *)
Values == {"a", "b", "c"}

(* pd.merge(data, cats, left_on='data', right_on='categories'): inner join *)
merge(data, categories) ==
    LET ncat == Len(categories)
        pairs == [p \in 1..(Len(data) * ncat) |->
                     [row |-> (p - 1) \div ncat, cat_row |-> (p - 1) % ncat]]
    IN  SelectSeq(pairs, LAMBDA r : data[r.row + 1] = categories[r.cat_row + 1])

(* result[np.array(m.row)] = m.cat_row *)
RECURSIVE AssignRows(_, _)
AssignRows(result, m) ==
    IF m = <<>> THEN result
    ELSE AssignRows([result EXCEPT ![Head(m).row + 1] = Some(Head(m).cat_row)], Tail(m))

(* variant: the result starts as zeros, not NaN *)
row_lookup_zeros(data, categories) ==
    LET ndata == Len(data)
        m == merge(data, categories)
        result == [r \in 1..ndata |-> Some(0)]
    IN  AssignRows(result, m)

row_lookup(data, categories) ==
    LET ndata == Len(data)
        m == merge(data, categories)
        result == [r \in 1..ndata |-> NaN]
    IN  AssignRows(result, m)

RowLookup ==
    /\ pc = "call"
    /\ fn = "row_lookup"
    /\ pc' = "done"
    /\ ret' = Ok(row_lookup(args.data, args.categories))
    /\ UNCHANGED <<fn, args, locals, data_collection>>

(* ------------------------------ calls --------------------------------- *)
Start(f, a, groups, datasets) ==
    /\ pc = "call"
    /\ fn = f
    /\ args = a
    /\ locals = NoLocals
    /\ ret = Raise("running")
    /\ data_collection = [datasets |-> datasets, groups |-> groups]

Init ==
    \/ \E arg \in Selectors : Start("split_component_view", <<arg>>, <<>>, <<>>)
    \/ \E component \in Identifiers, view \in Views :
          Start("join_component_view", <<component, view>>, <<>>, <<>>)
    \/ \E a \in FacetArgs : Start("facet_subsets", a, a.groups, a.datasets)
    \/ \E label \in Labels, taken \in SUBSET TakenNames :
          Start("disambiguate", [label |-> label, taken |-> taken], <<>>, <<>>)
    \/ \E data \in SeqsUpTo(Values, MaxLen), categories \in SeqsUpTo(Values, MaxLen) :
          Start("row_lookup", [data |-> data, categories |-> categories], <<>>, <<>>)

Next ==
    \/ Split \/ Join \/ SplitJoined
    \/ FacetCall \/ NewSubsetGroup \/ NewSubsetGroupFails \/ FacetReturn
    \/ DisambiguateCall \/ DisambiguateTry
    \/ RowLookup

Spec == Init /\ [][Next]_vars
(* ------------------------------ claims -------------------------------- *)
FacetBuilt ==
    /\ fn = "facet_subsets"
    /\ pc \in {"register", "done"}
    /\ ret.status # "ValueError"

FracEq(a, b) == a.n * b.d = b.n * a.d
(* the edges of the claim: lo + i*(hi-lo)/steps, i in 0..steps *)
EdgeAt(lo, hi, steps, i) == Frac(lo * steps + i * (hi - lo), steps)
(* probe values m/steps around and inside the range, edges included *)
Probes(lo, hi, steps) ==
    LET a == IF lo < hi THEN lo ELSE hi
        b == IF lo < hi THEN hi ELSE lo
    IN  {Frac(m, steps) : m \in (a * steps - 2)..(b * steps + 2)}
Satisfied(v) == {i \in 1..Len(locals.states) : Holds(locals.states[i], v)}

(* C1: linear mode, lo < hi, steps >= 1: the predicates partition [lo, hi)   *)
(* into steps disjoint half-open bins of equal width; a value in [lo, hi)    *)
(* satisfies exactly the predicate of the bin whose edges enclose it, and a  *)
(* value outside [lo, hi) satisfies none.                                    *)
C1_Partition ==
    (FacetBuilt /\ locals.lo < locals.hi /\ args.steps >= 1) =>
        LET lo == locals.lo
            hi == locals.hi
            steps == args.steps
        IN  /\ Len(locals.states) = steps
            /\ \A i \in 1..steps :
                  LET s == locals.states[i]
                  IN  (s.right.val.n * s.left.val.d - s.left.val.n * s.right.val.d) * steps
                         = (hi - lo) * s.left.val.d * s.right.val.d
            /\ \A v \in Probes(lo, hi, steps) :
                  IF Le(Frac(lo, 1), v) /\ Lt(v, Frac(hi, 1))
                  THEN Satisfied(v) = {i \in 1..steps :
                                          /\ Le(EdgeAt(lo, hi, steps, i - 1), v)
                                          /\ Lt(v, EdgeAt(lo, hi, steps, i))}
                       /\ Cardinality(Satisfied(v)) = 1
                  ELSE Satisfied(v) = {}

C1_Witness ==
    /\ FacetBuilt /\ pc = "done" /\ ret.status = "ok"
    /\ locals.lo = 0 /\ locals.hi = 10 /\ args.steps = 3
    /\ Satisfied(Frac(10, 3)) = {2}

(* C2: linear mode, lo > hi, steps >= 1: bin i is (x <= edges[i]) AND        *)
(* (x > edges[i+1]); lo=10, hi=0, steps=2 gives (x<=10)&(x>5), (x<=5)&(x>0); *)
(* every value in (hi, lo] satisfies exactly one predicate, hi satisfies     *)
(* none and lo satisfies the first.                                          *)
C2_Reversed ==
    (FacetBuilt /\ locals.lo > locals.hi /\ args.steps >= 1) =>
        LET lo == locals.lo
            hi == locals.hi
            steps == args.steps
        IN  /\ Len(locals.states) = steps
            /\ \A i \in 1..steps :
                  LET s == locals.states[i]
                  IN  /\ s.left.op = "<=" /\ FracEq(s.left.val, EdgeAt(lo, hi, steps, i - 1))
                      /\ s.right.op = ">" /\ FracEq(s.right.val, EdgeAt(lo, hi, steps, i))
                      /\ s.left.att = cid /\ s.right.att = cid
            /\ \A v \in Probes(lo, hi, steps) :
                  IF Lt(Frac(hi, 1), v) /\ Le(v, Frac(lo, 1))
                  THEN Cardinality(Satisfied(v)) = 1
                  ELSE Satisfied(v) = {}
            /\ Satisfied(Frac(lo, 1)) = {1}
            /\ Satisfied(Frac(hi, 1)) = {}
            /\ (lo = 10 /\ hi = 0 /\ steps = 2) =>
                  /\ FracEq(locals.states[1].left.val, Frac(10, 1))
                  /\ FracEq(locals.states[1].right.val, Frac(5, 1))
                  /\ FracEq(locals.states[2].left.val, Frac(5, 1))
                  /\ FracEq(locals.states[2].right.val, Frac(0, 1))

C2_Witness ==
    /\ FacetBuilt /\ pc = "done" /\ ret.status = "ok"
    /\ locals.lo = 10 /\ locals.hi = 0 /\ args.steps = 2
    /\ Satisfied(Frac(10, 2)) = {2}

Distinct(seq) == \A i, j \in 1..Len(seq) : seq[i] = seq[j] => i = j

(* C3: with pairwise distinct categories the result of row_lookup has        *)
(* len(data) entries; entry i is the 0-based index j with categories[j] =    *)
(* data[i], or NaN when no category equals data[i].                          *)
C3_RowLookup ==
    (fn = "row_lookup" /\ pc = "done" /\ Distinct(args.categories)) =>
        /\ ret.status = "ok"
        /\ Len(ret.value) = Len(args.data)
        /\ \A i \in 1..Len(args.data) :
              IF \E j \in 1..Len(args.categories) : args.categories[j] = args.data[i]
              THEN \E j \in 1..Len(args.categories) :
                      /\ args.categories[j] = args.data[i]
                      /\ ret.value[i] = Some(j - 1)
              ELSE ret.value[i] = NaN

C3_Witness ==
    /\ fn = "row_lookup" /\ pc = "done"
    /\ args.data = <<"c", "a", "c">>
    /\ args.categories = <<"c", "b">>
    /\ ret.value = <<Some(0), NaN, Some(0)>>

Inferring == args.lo = None \/ args.hi = None
MinOf(S) == CHOOSE m \in S : \A n \in S : m <= n
MaxOf(S) == CHOOSE m \in S : \A n \in S : m >= n

(* C4: with lo or hi unspecified, datasets lacking the attribute are skipped *)
(* and the first dataset that has it alone supplies the values: a missing lo *)
(* is its minimum, a missing hi its maximum, a specified bound is kept.      *)
C4_BoundInference ==
    (FacetBuilt /\ Inferring) =>
        \E j \in 1..Len(args.datasets) :
            /\ args.datasets[j].has
            /\ \A k \in 1..(j - 1) : ~args.datasets[k].has
            /\ LET nums == {n \in DataNumbers : Some(n) \in args.datasets[j].vals}
               IN  /\ locals.lo = IF args.lo = None THEN MinOf(nums) ELSE args.lo[1]
                   /\ locals.hi = IF args.hi = None THEN MaxOf(nums) ELSE args.hi[1]

C4_Witness ==
    /\ FacetBuilt /\ pc = "done"
    /\ args.lo = None /\ args.hi = Some(0)
    /\ Len(args.datasets) = 2
    /\ ~args.datasets[1].has
    /\ args.datasets[2].vals = {Some(-1), Some(7), NaN}
    /\ locals.lo = -1 /\ locals.hi = 0

NoDatasetHas == \A j \in 1..Len(args.datasets) : ~args.datasets[j].has

(* C5: with lo or hi unspecified and no dataset carrying the attribute the   *)
(* call fails with ValueError before the factory is called, and the          *)
(* collection's groups are unchanged.                                        *)
C5_InferenceFails ==
    (fn = "facet_subsets" /\ pc # "call" /\ Inferring /\ NoDatasetHas) =>
        /\ pc = "done"
        /\ ret = Raise("ValueError")
        /\ locals.calls = 0
        /\ data_collection.groups = args.groups
        /\ data_collection.datasets = args.datasets

C5_Witness ==
    /\ fn = "facet_subsets" /\ pc = "done" /\ ret.status = "ValueError"
    /\ args.lo = Some(0) /\ args.hi = None
    /\ Len(args.datasets) = 2
    /\ args.groups = <<OldGroup>>

(* C6: new_subset_group is called once per bin in bin order; without a       *)
(* failure exactly steps groups are registered and returned in that order;   *)
(* when the k-th call fails no later call is made and the k-1 groups of the  *)
(* earlier bins stay registered.                                             *)
C6_Registration ==
    FacetBuilt =>
        LET n == Len(locals.result)
        IN  /\ data_collection.groups = args.groups \o locals.result
            /\ \A k \in 1..n :
                  /\ locals.result[k].label =
                        BinLabel(locals.rng, k, locals.reverse, args.prefix)
                  /\ locals.result[k].subset_state = locals.states[k]
            /\ (pc = "register") => locals.calls = n
            /\ (pc = "done" /\ ret.status = "ok") =>
                  /\ n = args.steps
                  /\ locals.calls = args.steps
                  /\ ret.value = locals.result
            /\ (pc = "done" /\ ret.status # "ok") =>
                  /\ ret.status = "FactoryError"
                  /\ locals.calls = n + 1
                  /\ locals.calls <= args.steps

C6_Witness ==
    /\ FacetBuilt /\ pc = "done" /\ ret.status = "FactoryError"
    /\ args.steps = 3 /\ locals.calls = 3
    /\ args.groups = <<OldGroup>>
    /\ Len(data_collection.groups) = 3

RoundTripped == fn = "split_of_join" /\ pc = "done"

(* C7 as stated: for every id and every view that is None, a scalar or a     *)
(* sequence of two or more elements, split(join(id, v)) = (id, v).           *)
C7_RoundTripAnySequence ==
    (RoundTripped /\ (args[2].kind \in {"none", "atom"} \/ Len(args[2].items) >= 2)) =>
        ret = Ok(<<args[1], args[2]>>)

(* C7 amended: the round trip holds for a view that is None, a non-iterable  *)
(* scalar or a tuple of two or more elements.                                *)
C7_RoundTripTuple ==
    (RoundTripped /\ (args[2].kind \in {"none", "atom"}
                        \/ (args[2].kind = "tuple" /\ Len(args[2].items) >= 2))) =>
        ret = Ok(<<args[1], args[2]>>)

C7_Witness ==
    /\ RoundTripped
    /\ args = <<Atom("x"), PyTuple(<<Atom("y"), Atom("x"), Atom("y")>>)>>
    /\ ret = Ok(<<Atom("x"), PyTuple(<<Atom("y"), Atom("x"), Atom("y")>>)>>)

(* C8: split_component_view raises TypeError on every tuple of length 1 and  *)
(* does not fail on a non-tuple argument or a tuple of length >= 2.          *)
C8_LengthOneRejected ==
    (fn = "split_component_view" /\ pc = "done") =>
        LET arg == args[1]
        IN  /\ (arg.kind = "tuple" /\ Len(arg.items) = 1) => ret = Raise("TypeError")
            /\ (arg.kind # "tuple" \/ Len(arg.items) >= 2) => ret.status = "ok"

C8_Witness ==
    /\ fn = "split_component_view" /\ pc = "done"
    /\ args[1] = PyTuple(<<Atom("y")>>)
    /\ ret.status = "TypeError"

TwoDigit == <<"_01", "_02", "_03", "_04", "_05", "_06", "_07", "_08", "_09">>

C9_Result ==
    (fn = "disambiguate" /\ pc = "done") =>
        /\ ret.status = "ok"
        /\ ret.value \notin args.taken
        /\ (args.label \notin args.taken) => ret.value = args.label
        /\ (args.label \in args.taken) =>
              \E n \in 1..Len(TwoDigit) :
                  /\ ret.value = args.label \o TwoDigit[n]
                  /\ \A m \in 1..(n - 1) : (args.label \o TwoDigit[m]) \in args.taken

(* C9: disambiguate terminates; it returns label when label is not taken,    *)
(* otherwise label_NN for the lowest NN >= 1 whose form is not taken; the    *)
(* result is never in taken and taken is not modified.                       *)
C9_Disambiguate ==
    /\ []C9_Result
    /\ [][args' = args]_vars
    /\ (fn = "disambiguate" /\ pc = "call") ~> (pc = "done")

C9_Witness ==
    /\ fn = "disambiguate" /\ pc = "done"
    /\ args.label = "a"
    /\ args.taken = {"a", "a_01", "a_02", "a_1", "b"}
    /\ ret.value = "a_03"

(* C10: with a prefix the groups are labelled prefix_1, prefix_2, ...        *)
(* (lo=0, hi=10, steps=2, prefix='m' gives 'm_1' and 'm_2').                 *)
C10_PrefixNumbered ==
    (FacetBuilt /\ args.prefix # "") =>
        \A i \in 1..Len(locals.labels) :
            locals.labels[i] = args.prefix \o "_" \o ToString(i)

InitDisambiguate ==
    \E label \in Labels, taken \in SUBSET TakenNames :
        Start("disambiguate", [label |-> label, taken |-> taken], <<>>, <<>>)

NextDisambiguate == DisambiguateCall \/ DisambiguateTry

SpecDisambiguate ==
    InitDisambiguate /\ [][NextDisambiguate]_vars /\ WF_vars(NextDisambiguate)
====
